---- MODULE Spec2Model ----
(***************************************************************************)
(* A model of the OmegaAgent workflow of omega-fastapi: the construction   *)
(* of an agent (app/agent.py, app/config.py), one invocation of run per    *)
(* agent with its awaited correction call (app/model_provider.py), and     *)
(* log_interaction (app/db.py).  Strings are TLA+ strings; the Python      *)
(* operations on them (in, int(), or) are modelled by what they compute.   *)
(***************************************************************************)
EXTENDS Integers, Sequences, FiniteSets, TLC

(***************************************************************************)
(* Bounds of the model.                                                    *)
(***************************************************************************)
\* number of OmegaAgent objects (one run invocation each) that interleave
NumAgents == 2
\* a script is a concatenation of at most MaxPieces pieces
MaxPieces == 3
\* the MAX_CORRECTION_ATTEMPTS environment value has at most MaxEnvLen characters
MaxEnvLen == 3
\* number of log_interaction calls in one behaviour
MaxLogs == 2

Agents == 1..NumAgents

(***************************************************************************)
(* Python values: None, int and str are kept apart by a tag.               *)
(***************************************************************************)
PyNone == [t |-> "none", i |-> 0, s |-> ""]
PyIntVal(n) == [t |-> "int", i |-> n, s |-> ""]
PyStr(x) == [t |-> "str", i |-> 0, s |-> x]

\* an exception in flight, or none
NoError == [raised |-> FALSE, exc |-> "", msg |-> ""]
Raise(cls, m) == [raised |-> TRUE, exc |-> cls, msg |-> m]

(***************************************************************************)
(* Strings.                                                                *)
(***************************************************************************)
CharAt(s, i) == SubSeq(s, i, i)

\* Python's  needle in hay  on str
Contains(needle, hay) ==
    \E i \in 1..(Len(hay) - Len(needle) + 1) :
        SubSeq(hay, i, i + Len(needle) - 1) = needle

\* all strings of at most n characters over the alphabet
RECURSIVE StringsUpTo(_, _)
StringsUpTo(alphabet, n) ==
    IF n = 0 THEN {""}
    ELSE LET S == StringsUpTo(alphabet, n - 1)
         IN  S \cup {s \o c : s \in S, c \in alphabet}

(***************************************************************************)
(* int(x) of Python on an int or a str: surrounding whitespace is          *)
(* stripped, one sign is allowed, then decimal digits, where single        *)
(* underscores may stand between digits; anything else is a ValueError.    *)
(***************************************************************************)
DigitChars == "0123456789"
IsDigit(c) == \E d \in 0..9 : CharAt(DigitChars, d + 1) = c
DigitVal(c) == CHOOSE d \in 0..9 : CharAt(DigitChars, d + 1) = c
IsSpace(c) == c \in {" ", "\t", "\n"}

RECURSIVE LStrip(_)
LStrip(s) ==
    IF Len(s) > 0 /\ IsSpace(CharAt(s, 1)) THEN LStrip(SubSeq(s, 2, Len(s))) ELSE s

RECURSIVE RStrip(_)
RStrip(s) ==
    IF Len(s) > 0 /\ IsSpace(CharAt(s, Len(s))) THEN RStrip(SubSeq(s, 1, Len(s) - 1)) ELSE s

Strip(s) == RStrip(LStrip(s))

\* the digits part of an integer literal: d(_?d)*
IsDigitsBody(s) ==
    /\ Len(s) > 0
    /\ \A i \in 1..Len(s) :
          \/ IsDigit(CharAt(s, i))
          \/ /\ CharAt(s, i) = "_"
             /\ i > 1 /\ i < Len(s)
             /\ IsDigit(CharAt(s, i - 1)) /\ IsDigit(CharAt(s, i + 1))

RECURSIVE DigitsValue(_, _)
DigitsValue(s, acc) ==
    IF Len(s) = 0 THEN acc
    ELSE LET c == CharAt(s, 1)
             rest == SubSeq(s, 2, Len(s))
         IN  IF c = "_" THEN DigitsValue(rest, acc)
             ELSE DigitsValue(rest, 10 * acc + DigitVal(c))

\* int(str): [err, val]
ParseInt(s) ==
    LET t == Strip(s)
        signed == Len(t) > 0 /\ CharAt(t, 1) \in {"+", "-"}
        body == IF signed THEN SubSeq(t, 2, Len(t)) ELSE t
        neg == signed /\ CharAt(t, 1) = "-"
    IN  IF IsDigitsBody(body)
        THEN [err |-> NoError,
              val |-> IF neg THEN 0 - DigitsValue(body, 0) ELSE DigitsValue(body, 0)]
        ELSE [err |-> Raise("ValueError", "invalid literal for int() with base 10"),
              val |-> 0]

\* int(x)
PyInt(x) ==
    IF x.t = "int" THEN [err |-> NoError, val |-> x.i]
    ELSE IF x.t = "str" THEN ParseInt(x.s)
    ELSE [err |-> Raise("TypeError", "int() argument must be a string or a number"),
          val |-> 0]

\* bool(x)
Truthy(x) ==
    IF x.t = "int" THEN x.i # 0
    ELSE IF x.t = "str" THEN x.s # ""
    ELSE FALSE

\* x or d
PyOr(x, d) == IF Truthy(x) THEN x ELSE d

(***************************************************************************)
(* The state.                                                              *)
(***************************************************************************)
VARIABLES
    environ,     \* the process environment's MAX_CORRECTION_ATTEMPTS: PyNone when unset, else a str
    agent,       \* agent[a]: the fields of OmegaAgent a, NoAgent before construction
    pc,          \* pc[a]: where a's construction and its run invocation stand
    steps,       \* steps[a]: what a's run invocation has done so far, in order
    request,     \* request[a]: the ChatCompletion request a's run has issued, NoRequest if none
    delivered,   \* delivered[a]: what the provider answered to a's request
    outcome,     \* outcome[a]: how a's construction or run ended
    query_logs,  \* the rows of the query_logs table
    warnings,    \* the warnings log_interaction printed
    log_result   \* how the last log_interaction call ended

vars == <<environ, agent, pc, steps, request, delivered, outcome,
          query_logs, warnings, log_result>>

agentVars == <<agent, pc, steps, request, delivered, outcome>>
logVars == <<query_logs, warnings, log_result>>

NoAgent == [omega_script |-> "", model |-> "", max_correction_attempts |-> 0, built |-> FALSE]
NoRequest == [sent |-> FALSE, model |-> "", system |-> "", user |-> ""]
NoDelivery == [kind |-> "none", content |-> "", error |-> ""]
NoOutcome == [kind |-> "none", exc |-> "", value |-> ""]
Returned(v) == [kind |-> "return", exc |-> "", value |-> v]
Raised(e) == [kind |-> "raise", exc |-> e.exc, value |-> e.msg]

(***************************************************************************)
(* app/config.py                                                           *)
(***************************************************************************)
\* getenv(name, default) on the one variable the agent reads
getenv(default) == IF environ.t = "none" THEN default ELSE environ

Settings_MAX_CORRECTION_ATTEMPTS == getenv(PyIntVal(3))

(***************************************************************************)
(* app/agent.py                                                            *)
(***************************************************************************)
\* the value OmegaAgent.__init__ computes for max_correction_attempts
InitAttempts == PyInt(PyOr(Settings_MAX_CORRECTION_ATTEMPTS, PyIntVal(3)))

\* validate_script with its two checks in the other order
validate_script_wr_first(script) ==
    IF ~Contains("WR_SECT", script)
    THEN Raise("OmegaValidationError", "Missing WR_SECT command.")
    ELSE IF ~Contains("DEFINE_SYMBOLS", script)
    THEN Raise("OmegaValidationError", "Missing DEFINE_SYMBOLS block.")
    ELSE NoError

\* validate_script without its second check
validate_script_define_only(script) ==
    IF ~Contains("DEFINE_SYMBOLS", script)
    THEN Raise("OmegaValidationError", "Missing DEFINE_SYMBOLS block.")
    ELSE NoError

\* OmegaAgent.validate_script: the exception it raises, NoError if none
validate_script(script) ==
    IF ~Contains("DEFINE_SYMBOLS", script)
    THEN Raise("OmegaValidationError", "Missing DEFINE_SYMBOLS block.")
    ELSE IF ~Contains("WR_SECT", script)
    THEN Raise("OmegaValidationError", "Missing WR_SECT command.")
    ELSE NoError

\* OmegaAgent.__init__(omega_script, model): the exception it raises and the object it builds
OmegaAgent_init(script, model) ==
    LET n == InitAttempts
    IN  [err |-> n.err,
         obj |-> [omega_script |-> script, model |-> model,
                  max_correction_attempts |-> n.val, built |-> TRUE]]

(***************************************************************************)
(* app/model_provider.py                                                   *)
(***************************************************************************)
CorrectionSystemPrompt ==
    "You are an expert in Omega-AGI. Correct and improve the following Omega script based on the provided instructions."

\* the request call_translator_llm_correction(prompt) hands to ChatCompletion.acreate
correction_request(prompt) ==
    [sent |-> TRUE, model |-> "gpt-4", system |-> CorrectionSystemPrompt, user |-> prompt]

\* a ChatCompletion response whose first choice carries the content
Response(content) ==
    [choices |-> <<[message |-> [role |-> "assistant", content |-> content]]>>]

\* response['choices'][0]['message']['content']
response_content(response) == response.choices[1].message.content

Answer(content) == [kind |-> "response", content |-> content, error |-> ""]
Failure(e) == [kind |-> "error", content |-> "", error |-> e]

\* the call's result with the corrected script validated before it is returned
correction_result_validated(d) ==
    IF d.kind = "error" THEN Raised(Raise(d.error, "provider failure"))
    ELSE LET v == response_content(Response(d.content))
         IN  IF validate_script(v).raised THEN Raised(validate_script(v)) ELSE Returned(v)

\* what call_translator_llm_correction ends with, given the provider's answer
correction_result(d) ==
    IF d.kind = "error" THEN Raised(Raise(d.error, "provider failure"))
    ELSE Returned(response_content(Response(d.content)))

(***************************************************************************)
(* The inputs.                                                             *)
(***************************************************************************)
\* the scripts of the scenarios, and one that lacks WR_SECT only
ScenarioScripts ==
    {"DEFINE_SYMBOLS\nWR_SECT foo", "WR_SECT only", "", "DEFINE_SYMBOLS only"}

\* the pieces scripts are concatenated from: the markers, their halves, near misses
Pieces ==
    {"DEFINE_SYMBOLS", "WR_SECT", "DEFINE_", "SYMBOLS", "WR_", "SECT", "wr_sect", "\n"}

RECURSIVE ScriptsUpTo(_)
ScriptsUpTo(n) ==
    IF n = 0 THEN {""}
    ELSE LET S == ScriptsUpTo(n - 1) IN S \cup {s \o p : s \in S, p \in Pieces}

Models == {"gpt-4", "openai-gpt4"}
Responses == {"DEFINE_SYMBOLS\nWR_SECT bar", "Sorry, I cannot do that."}
ProviderErrors == {"RateLimitError"}

\* MAX_CORRECTION_ATTEMPTS in the environment: unset, or a string
EnvAlphabet == {"0", "1", "3", "-", "+", " ", "_", "a"}
EnvValues == {PyNone} \cup {PyStr(s) : s \in StringsUpTo(EnvAlphabet, MaxEnvLen)}
RunEnvValues == {PyNone, PyStr(""), PyStr("1"), PyStr("5"), PyStr("abc")}

(***************************************************************************)
(* Construction and run of an agent.                                       *)
(***************************************************************************)
Construct(a, script, model) ==
    /\ pc[a] = "start"
    /\ LET r == OmegaAgent_init(script, model)
       IN  IF r.err.raised
           THEN /\ pc' = [pc EXCEPT ![a] = "init_failed"]
                /\ outcome' = [outcome EXCEPT ![a] = Raised(r.err)]
                /\ UNCHANGED agent
           ELSE /\ pc' = [pc EXCEPT ![a] = "ready"]
                /\ agent' = [agent EXCEPT ![a] = r.obj]
                /\ UNCHANGED outcome
    /\ UNCHANGED <<environ, steps, request, delivered, logVars>>

\* run issuing the correction call before it validates
run_start_call_first(a) ==
    /\ pc[a] = "ready"
    /\ request' = [request EXCEPT ![a] = correction_request(agent[a].omega_script)]
    /\ LET err == validate_script(agent[a].omega_script)
       IN  IF err.raised
           THEN /\ steps' = [steps EXCEPT ![a] = @ \o <<"call", "validate">>]
                /\ outcome' = [outcome EXCEPT ![a] = Raised(err)]
                /\ pc' = [pc EXCEPT ![a] = "failed"]
           ELSE /\ steps' = [steps EXCEPT ![a] = @ \o <<"call", "validate">>]
                /\ pc' = [pc EXCEPT ![a] = "awaiting"]
                /\ UNCHANGED outcome
    /\ UNCHANGED <<environ, agent, delivered, logVars>>

\* OmegaAgent.run up to its await: validate_script, then the correction call is issued
run_start(a) ==
    /\ pc[a] = "ready"
    /\ LET err == validate_script(agent[a].omega_script)
       IN  IF err.raised
           THEN /\ steps' = [steps EXCEPT ![a] = Append(@, "validate")]
                /\ outcome' = [outcome EXCEPT ![a] = Raised(err)]
                /\ pc' = [pc EXCEPT ![a] = "failed"]
                /\ UNCHANGED request
           ELSE /\ steps' = [steps EXCEPT ![a] = @ \o <<"validate", "call">>]
                /\ request' = [request EXCEPT ![a] = correction_request(agent[a].omega_script)]
                /\ pc' = [pc EXCEPT ![a] = "awaiting"]
                /\ UNCHANGED outcome
    /\ UNCHANGED <<environ, agent, delivered, logVars>>

\* the provider answers a's request: a completion, or a failure
provider_answer(a, d) ==
    /\ pc[a] = "awaiting"
    /\ delivered' = [delivered EXCEPT ![a] = d]
    /\ pc' = [pc EXCEPT ![a] = "answered"]
    /\ UNCHANGED <<environ, agent, steps, request, outcome, logVars>>

\* run catching the provider's failure and returning the script as it was
run_resume_fallback(a) ==
    /\ pc[a] = "answered"
    /\ LET r == correction_result(delivered[a])
           f == IF r.kind = "raise" THEN Returned(agent[a].omega_script) ELSE r
       IN  /\ outcome' = [outcome EXCEPT ![a] = f]
           /\ pc' = [pc EXCEPT ![a] = "done"]
           /\ steps' = [steps EXCEPT ![a] = Append(@, f.kind)]
    /\ UNCHANGED <<environ, agent, request, delivered, logVars>>

\* run with the bounded correction loop: an output that fails validation is sent
\* back for correction while attempts remain
run_resume_retry(a) ==
    /\ pc[a] = "answered"
    /\ LET r == correction_result(delivered[a])
           calls == Len(SelectSeq(steps[a], LAMBDA e : e = "call"))
       IN  IF /\ r.kind = "return"
              /\ validate_script(r.value).raised
              /\ calls < agent[a].max_correction_attempts
           THEN /\ steps' = [steps EXCEPT ![a] = @ \o <<"validate", "call">>]
                /\ request' = [request EXCEPT ![a] = correction_request(r.value)]
                /\ pc' = [pc EXCEPT ![a] = "awaiting"]
                /\ UNCHANGED outcome
           ELSE /\ outcome' = [outcome EXCEPT ![a] = r]
                /\ pc' = [pc EXCEPT ![a] = IF r.kind = "raise" THEN "failed" ELSE "done"]
                /\ steps' = [steps EXCEPT ![a] = Append(@, r.kind)]
                /\ UNCHANGED request
    /\ UNCHANGED <<environ, agent, delivered, logVars>>

\* run reading the answer from a slot all invocations share: the first answer
\* held there is the one every resuming run returns
run_resume_shared(a) ==
    /\ pc[a] = "answered"
    /\ LET held == {b \in Agents : delivered[b].kind # "none"}
           src == CHOOSE b \in held : \A c \in held : b <= c
           r == correction_result(delivered[src])
       IN  /\ outcome' = [outcome EXCEPT ![a] = r]
           /\ pc' = [pc EXCEPT ![a] = IF r.kind = "raise" THEN "failed" ELSE "done"]
           /\ steps' = [steps EXCEPT ![a] = Append(@, r.kind)]
    /\ UNCHANGED <<environ, agent, request, delivered, logVars>>

\* OmegaAgent.run from its await on: the awaited call ends, run returns its result
run_resume(a) ==
    /\ pc[a] = "answered"
    /\ LET r == correction_result(delivered[a])
       IN  /\ outcome' = [outcome EXCEPT ![a] = r]
           /\ pc' = [pc EXCEPT ![a] = IF r.kind = "raise" THEN "failed" ELSE "done"]
           /\ steps' = [steps EXCEPT ![a] = Append(@, r.kind)]
    /\ UNCHANGED <<environ, agent, request, delivered, logVars>>

(***************************************************************************)
(* app/db.py                                                               *)
(***************************************************************************)
\* the classes of the exceptions in play, each with its base class
ExcParent(c) ==
    CASE c = "APIError" -> "Exception"
      [] c = "ConnectError" -> "Exception"
      [] c = "Exception" -> "BaseException"
      [] OTHER -> "object"

RECURSIVE IsSubclass(_, _)
IsSubclass(c, base) ==
    IF c = base THEN TRUE
    ELSE IF c = "object" THEN FALSE
    ELSE IsSubclass(ExcParent(c), base)

\* an except clause that names the client's own error class only
LogHandlerClass_narrow == "APIError"

\* the class log_interaction's except clause names
LogHandlerClass == "Exception"

\* what the insert into query_logs can end with
InsertOutcomes == {"ok", "APIError", "ConnectError"}

\* log_interaction(prompt, response, model), the insert ending with ins
log_interaction(prompt, response, model, ins) ==
    /\ Len(log_result) < MaxLogs
    /\ LET data == [prompt |-> prompt, response |-> response, model |-> model]
       IN  IF ins = "ok"
           THEN /\ query_logs' = Append(query_logs, data)
                /\ log_result' = Append(log_result, [insert |-> ins, kind |-> "return"])
                /\ UNCHANGED warnings
           ELSE IF IsSubclass(ins, LogHandlerClass)
           THEN /\ warnings' = Append(warnings, ins)
                /\ log_result' = Append(log_result, [insert |-> ins, kind |-> "return"])
                /\ UNCHANGED query_logs
           ELSE /\ log_result' = Append(log_result, [insert |-> ins, kind |-> "raise"])
                /\ UNCHANGED <<query_logs, warnings>>
    /\ UNCHANGED <<environ, agentVars>>

(***************************************************************************)
(* Specifications.                                                         *)
(***************************************************************************)
InitAgents ==
    /\ agent = [a \in Agents |-> NoAgent]
    /\ pc = [a \in Agents |-> "start"]
    /\ steps = [a \in Agents |-> <<>>]
    /\ request = [a \in Agents |-> NoRequest]
    /\ delivered = [a \in Agents |-> NoDelivery]
    /\ outcome = [a \in Agents |-> NoOutcome]

InitLog ==
    /\ query_logs = <<>>
    /\ warnings = <<>>
    /\ log_result = <<>>

\* the workflow: NumAgents agents, each constructed and run once, interleaved
Init == environ \in RunEnvValues /\ InitAgents /\ InitLog

Next ==
    \/ \E a \in Agents, s \in ScenarioScripts, m \in Models : Construct(a, s, m)
    \/ \E a \in Agents : run_start(a)
    \/ \E a \in Agents, c \in Responses : provider_answer(a, Answer(c))
    \/ \E a \in Agents, e \in ProviderErrors : provider_answer(a, Failure(e))
    \/ \E a \in Agents : run_resume(a)

Spec == Init /\ [][Next]_vars

\* one agent, over all scripts of at most MaxPieces pieces
InitValidate == environ = PyNone /\ InitAgents /\ InitLog

NextValidate ==
    \/ \E s \in ScriptsUpTo(MaxPieces), m \in Models : Construct(1, s, m)
    \/ run_start(1)
    \/ \E c \in Responses : provider_answer(1, Answer(c))
    \/ \E e \in ProviderErrors : provider_answer(1, Failure(e))
    \/ run_resume(1)

SpecValidate == InitValidate /\ [][NextValidate]_vars

\* one agent, over all environment values of at most MaxEnvLen characters
InitConfig == environ \in EnvValues /\ InitAgents /\ InitLog

NextConfig ==
    \/ \E s \in ScenarioScripts, m \in Models : Construct(1, s, m)
    \/ run_start(1)
    \/ \E c \in Responses : provider_answer(1, Answer(c))
    \/ \E e \in ProviderErrors : provider_answer(1, Failure(e))
    \/ run_resume(1)

SpecConfig == InitConfig /\ [][NextConfig]_vars

\* log_interaction alone
InitLogging == environ = PyNone /\ InitAgents /\ InitLog

NextLog ==
    \E p \in ScenarioScripts, r \in Responses, m \in Models, ins \in InsertOutcomes :
        log_interaction(p, r, m, ins)

SpecLog == InitLogging /\ [][NextLog]_vars

(***************************************************************************)
(* Vocabulary of the properties.                                           *)
(***************************************************************************)
\* m occurs in s: some slice of s is m
Occurs(m, s) == \E i \in 1..Len(s) : \E j \in i..Len(s) : SubSeq(s, i, j) = m

HasBothMarkers(s) == Occurs("DEFINE_SYMBOLS", s) /\ Occurs("WR_SECT", s)

\* a's run invocation has begun
Started(a) == pc[a] \in {"awaiting", "answered", "done", "failed"}
Ended(a) == pc[a] \in {"done", "failed"}

Count(ev, seq) == Cardinality({i \in 1..Len(seq) : seq[i] = ev})

ValidationFailure(m) == [kind |-> "raise", exc |-> "OmegaValidationError", value |-> m]
FailedValidation(a) == outcome[a].kind = "raise" /\ outcome[a].exc = "OmegaValidationError"

\* C1: a run on a script without DEFINE_SYMBOLS (the empty script included) fails
\* with "Missing DEFINE_SYMBOLS block.", whether or not WR_SECT is in the script.
C1_MissingDefineSymbols ==
    \A a \in Agents :
        (Started(a) /\ ~Occurs("DEFINE_SYMBOLS", agent[a].omega_script))
            => /\ pc[a] = "failed"
               /\ outcome[a] = ValidationFailure("Missing DEFINE_SYMBOLS block.")

C1_Witness ==
    \E a \in Agents :
        /\ pc[a] = "failed"
        /\ Occurs("WR_SECT", agent[a].omega_script)
        /\ ~Occurs("DEFINE_SYMBOLS", agent[a].omega_script)
        /\ Occurs("SYMBOLS", agent[a].omega_script)
        /\ outcome[a].value = "Missing DEFINE_SYMBOLS block."

\* C2: a run on a script with DEFINE_SYMBOLS and without WR_SECT fails with
\* "Missing WR_SECT command.".
C2_MissingWrSect ==
    \A a \in Agents :
        (/\ Started(a)
         /\ Occurs("DEFINE_SYMBOLS", agent[a].omega_script)
         /\ ~Occurs("WR_SECT", agent[a].omega_script))
            => /\ pc[a] = "failed"
               /\ outcome[a] = ValidationFailure("Missing WR_SECT command.")

C2_Witness ==
    \E a \in Agents :
        /\ pc[a] = "failed"
        /\ Occurs("DEFINE_SYMBOLS", agent[a].omega_script)
        /\ Occurs("SECT", agent[a].omega_script)
        /\ ~Occurs("WR_SECT", agent[a].omega_script)
        /\ outcome[a].value = "Missing WR_SECT command."

\* C3: a run on a script with both markers calls the correction capability exactly
\* once, with the script as given, and returns the capability's output unchanged,
\* whether or not the output has the markers.
C3_OneCallVerbatim ==
    \A a \in Agents :
        (Started(a) /\ HasBothMarkers(agent[a].omega_script))
            => /\ request[a].sent
               /\ request[a].user = agent[a].omega_script
               /\ Count("call", steps[a]) = 1
               /\ (delivered[a].kind = "response" /\ pc[a] # "answered")
                     => /\ pc[a] = "done"
                        /\ outcome[a] = Returned(delivered[a].content)

C3_Witness ==
    \E a \in Agents :
        /\ pc[a] = "done"
        /\ agent[a].omega_script = "DEFINE_SYMBOLS\nWR_SECT foo"
        /\ request[a].user = "DEFINE_SYMBOLS\nWR_SECT foo"
        /\ ~HasBothMarkers(delivered[a].content)
        /\ outcome[a].value = delivered[a].content

\* C4: a run whose script fails validation never calls the correction capability:
\* validation comes before any call, and the validation failure ends the run at once.
C4_StateInv ==
    \A a \in Agents :
        /\ FailedValidation(a)
              => /\ pc[a] = "failed"
                 /\ ~request[a].sent
                 /\ steps[a] = <<"validate">>
                 /\ delivered[a] = NoDelivery
        /\ request[a].sent
              => /\ Len(steps[a]) >= 2
                 /\ steps[a][1] = "validate"
                 /\ steps[a][2] = "call"
                 /\ HasBothMarkers(agent[a].omega_script)
        /\ (Started(a) /\ ~HasBothMarkers(agent[a].omega_script)) => FailedValidation(a)

C4_NoRetry ==
    \A a \in Agents :
        FailedValidation(a)
            => /\ pc'[a] = pc[a] /\ steps'[a] = steps[a]
               /\ request'[a] = request[a] /\ outcome'[a] = outcome[a]

C4_NoCallOnInvalid == [] C4_StateInv /\ [][C4_NoRetry]_vars

C4_Witness ==
    \E a \in Agents :
        /\ agent[a].omega_script = "WR_SECT only"
        /\ pc[a] = "failed"
        /\ outcome[a].value = "Missing DEFINE_SYMBOLS block."
        /\ ~request[a].sent

\* C5: max_correction_attempts is 3 when MAX_CORRECTION_ATTEMPTS is unset, empty or
\* non-numeric, and n when it is the string of a positive integer n; construction
\* never fails on it and the stored limit is positive.
HasNoDigit(s) == \A i \in 1..Len(s) : ~IsDigit(CharAt(s, i))
IsPositiveDecimal(s) ==
    /\ Len(s) > 0
    /\ \A i \in 1..Len(s) : IsDigit(CharAt(s, i))
    /\ CharAt(s, 1) # "0"

C5_AttemptLimit ==
    \A a \in Agents :
        pc[a] # "start"
            => /\ pc[a] # "init_failed"
               /\ agent[a].max_correction_attempts > 0
               /\ (environ.t = "none" \/ HasNoDigit(environ.s))
                     => agent[a].max_correction_attempts = 3
               /\ (environ.t = "str" /\ IsPositiveDecimal(environ.s))
                     => agent[a].max_correction_attempts = DigitsValue(environ.s, 0)

\* C6: the correction call of run is issued for the model the agent was given.
C6_ModelPassedThrough ==
    \A a \in Agents : request[a].sent => request[a].model = agent[a].model

\* C7: log_interaction completes normally whatever error the insert raises; a
\* failed insert leaves a warning and nothing else.
C7_LoggingNeverEscapes ==
    /\ \A i \in 1..Len(log_result) : log_result[i].kind = "return"
    /\ Len(warnings) = Count(FALSE, [i \in 1..Len(log_result) |-> log_result[i].insert = "ok"])
    /\ Len(query_logs) = Count(TRUE, [i \in 1..Len(log_result) |-> log_result[i].insert = "ok"])

C7_Witness ==
    \E i \in 1..Len(log_result) :
        /\ log_result[i].insert = "ConnectError"
        /\ log_result[i].kind = "return"
        /\ Len(warnings) >= 1

\* C8: when the script is valid and the correction capability fails, run ends with
\* that failure: no fallback result, no second call.
C8_ProviderFailurePropagates ==
    \A a \in Agents :
        (delivered[a].kind = "error" /\ pc[a] # "answered")
            => /\ pc[a] = "failed"
               /\ outcome[a].kind = "raise"
               /\ outcome[a].exc = delivered[a].error
               /\ Count("call", steps[a]) = 1
               /\ steps[a] = <<"validate", "call", "raise">>

C8_Witness ==
    \E a \in Agents :
        /\ pc[a] = "failed"
        /\ HasBothMarkers(agent[a].omega_script)
        /\ delivered[a].kind = "error"
        /\ outcome[a].exc = "RateLimitError"

\* C9: whatever max_correction_attempts is, a run makes at most one correction call
\* and validates exactly once, before the call, never after the correction; a run
\* that has ended is in exactly one of: result returned, validation error,
\* provider error, and stays there.
EndKinds(a) ==
    {k \in {"result", "validation", "provider"} :
        \/ k = "result" /\ pc[a] = "done" /\ outcome[a].kind = "return"
        \/ k = "validation" /\ pc[a] = "failed" /\ FailedValidation(a)
        \/ k = "provider" /\ pc[a] = "failed" /\ outcome[a].kind = "raise"
              /\ outcome[a].exc \in ProviderErrors}

C9_StateInv ==
    \A a \in Agents :
        /\ Count("call", steps[a]) <= 1
        /\ Started(a) => (Count("validate", steps[a]) = 1 /\ steps[a][1] = "validate")
        /\ \A i \in 1..Len(steps[a]) : \A j \in 1..Len(steps[a]) :
              (steps[a][i] = "call" /\ steps[a][j] = "validate") => j < i
        /\ Ended(a) => Cardinality(EndKinds(a)) = 1
        /\ ~Ended(a) => EndKinds(a) = {}

C9_EndIsFinal ==
    \A a \in Agents :
        Ended(a) => (pc'[a] = pc[a] /\ steps'[a] = steps[a] /\ outcome'[a] = outcome[a])

C9_SingleShot == [] C9_StateInv /\ [][C9_EndIsFinal]_vars

C9_Witness ==
    \E a \in Agents :
        /\ agent[a].max_correction_attempts = 5
        /\ pc[a] = "done"
        /\ ~HasBothMarkers(outcome[a].value)
        /\ steps[a] = <<"validate", "call", "return">>

\* C10: run leaves omega_script, model and max_correction_attempts as they were,
\* and with runs interleaved at the awaited call each run's outcome is decided by
\* its own script and its own answer from the capability.
OwnOutcome(a) ==
    IF ~HasBothMarkers(agent[a].omega_script)
    THEN IF ~Occurs("DEFINE_SYMBOLS", agent[a].omega_script)
         THEN ValidationFailure("Missing DEFINE_SYMBOLS block.")
         ELSE ValidationFailure("Missing WR_SECT command.")
    ELSE IF delivered[a].kind = "error"
    THEN [kind |-> "raise", exc |-> delivered[a].error, value |-> "provider failure"]
    ELSE Returned(delivered[a].content)

C10_StateInv == \A a \in Agents : Ended(a) => outcome[a] = OwnOutcome(a)

C10_FieldsKept == \A a \in Agents : agent[a].built => agent'[a] = agent[a]

C10_Independent == [] C10_StateInv /\ [][C10_FieldsKept]_vars

C10_Witness ==
    \E a \in Agents : \E b \in Agents :
        /\ a # b
        /\ pc[a] = "done" /\ pc[b] = "answered"
        /\ steps[a] = <<"validate", "call", "return">>
        /\ delivered[b].kind = "response"
        /\ delivered[a].content # delivered[b].content

====
